---- MODULE Spec2Model ----
(***************************************************************************)
(* Museum Trip Planner API (src/app.py): one request at a time through     *)
(* POST /plan_trip and POST /show_museums.                                 *)
(*                                                                         *)
(* Python values are modelled as follows.                                  *)
(*   - a dict is a function from its keys (strings) to its values;         *)
(*   - a list is a sequence; a list element is [uid, d]: the dict d and    *)
(*     the identity uid of the dict object (two dicts that are equal by    *)
(*     value are still two objects);                                       *)
(*   - an optional value is a sequence of length at most one: None is <<>> *)
(*     and a value x is <<x>>;                                             *)
(*   - a coordinate is in whole degrees, a distance in whole metres.       *)
(***************************************************************************)
EXTENDS Integers, Sequences, FiniteSets

VARIABLES
    pc,                    \* position of the request in its handler
    endpoint,              \* "plan_trip" or "show_museums"
    cities,                \* input_data['cities']
    start_location_input,  \* input_data['start_location']
    upstream,              \* history: the museum provider's answer to each fetch so far
    museums,               \* all_museums, then the handler's museums (the working list)
    input_museums,         \* history: the list as handed to a_star_search
    start_location,        \* optional Point
    chosen_museum,         \* optional uid of the museum the start was resolved from
    current_location,      \* a_star_search's current_location
    trip_plan,             \* a_star_search's trip_plan
    geo,                   \* history: ipinfo's answer to each call of get_current_location
    ret,                   \* what the handler returned: [data, code]
    response               \* what the caller receives: [status, body]

vars == <<pc, endpoint, cities, start_location_input, upstream, museums,
          input_museums, start_location, chosen_museum, current_location,
          trip_plan, geo, ret, response>>

(***************************************************************************)
(* Bounds and input universes                                              *)
(***************************************************************************)
MaxCities == 2

CityNames == {"Paris", "Rome"}

None == <<>>
Some(x) == <<x>>

Point(lat, lon) == [latitude |-> lat, longitude |-> lon]

\* JSON objects the museum provider may return: with or without an id, a
\* city of its own, an image, a distance; two of them at the same place.
RecLouvre == [id |-> 1, name |-> "Louvre", latitude |-> 0, longitude |-> 0, city |-> "Rome"]
RecTwo == [name |-> "2", latitude |-> 0, longitude |-> 1, imageUrl |-> "u"]
RecCurrent == [id |-> 3, name |-> "Current Location", latitude |-> 0, longitude |-> 2]
RecOrsay == [name |-> "Orsay", latitude |-> 0, longitude |-> 0, distance |-> 5]
RecLouvreAbuDhabi == [id |-> 7, name |-> "LOUVRE", latitude |-> 1, longitude |-> 1]

UpstreamRecords == {RecLouvre, RecTwo, RecCurrent, RecOrsay, RecLouvreAbuDhabi}

\* JSON arrays the museum provider may return.
UpstreamBodies ==
    {<<>>} \cup {<<a>> : a \in UpstreamRecords}
           \cup {<<RecTwo, RecLouvre>>, <<RecOrsay, RecCurrent>>}

\* What requests.get(url) and response.json() do for one city: the call raises
\* (network error), or answers with a status code and a body that parses as a
\* JSON array or does not.
MuseumUpstream ==
    { [raises |-> FALSE, status_code |-> 200, parses |-> TRUE, body |-> b] :
          b \in UpstreamBodies }
    \cup { [raises |-> FALSE, status_code |-> 404, parses |-> TRUE, body |-> <<>>],
           [raises |-> FALSE, status_code |-> 200, parses |-> FALSE, body |-> <<>>],
           [raises |-> TRUE, status_code |-> 0, parses |-> FALSE, body |-> <<>>] }

\* data['loc'].split(','): the parts, each with what float() makes of it
\* (None when float() raises ValueError).
GeoLocParts ==
    { <<Some(1), Some(1)>>, <<Some(0), Some(1)>>, <<Some(0)>>,
      <<Some(0), None>>, <<Some(0), Some(1), Some(2)>> }

\* What requests.get('https://ipinfo.io') and response.json() do.
GeoUpstream ==
    { [raises |-> FALSE, has_loc |-> TRUE, loc |-> p] : p \in GeoLocParts }
    \cup { [raises |-> FALSE, has_loc |-> FALSE, loc |-> <<>>],
           [raises |-> TRUE, has_loc |-> FALSE, loc |-> <<>>] }

StartInputs ==
    { "current location", "Current Location", "louvre", "Orsay",
      "2", "1", "3", "0", "-1", "7", "abc" }

(***************************************************************************)
(* Library functions, by what they do on the inputs above                  *)
(***************************************************************************)
\* str.lower()
Lower(s) ==
    CASE s = "Current Location" -> "current location"
      [] s = "Louvre" -> "louvre"
      [] s = "LOUVRE" -> "louvre"
      [] s = "Orsay" -> "orsay"
      [] OTHER -> s

\* int(s): the integer, or None when it raises ValueError
ParseInt(s) ==
    CASE s = "-1" -> Some(-1)
      [] s = "0" -> Some(0)
      [] s = "1" -> Some(1)
      [] s = "2" -> Some(2)
      [] s = "3" -> Some(3)
      [] s = "7" -> Some(7)
      [] OTHER -> None

Abs(x) == IF x < 0 THEN -x ELSE x
Min2(x, y) == IF x <= y THEN x ELSE y
Max2(x, y) == IF x <= y THEN y ELSE x

\* geopy's geodesic(p, q) on the WGS-84 ellipsoid, in metres, for latitudes 0..1
\* and longitudes 0..2 degrees.
geodesic(p, q) ==
    LET lo == Min2(p.latitude, q.latitude)
        hi == Max2(p.latitude, q.latitude)
        dlon == Abs(p.longitude - q.longitude)
    IN  CASE dlon = 0 /\ lo = hi -> 0
          [] lo = 0 /\ hi = 0 /\ dlon = 1 -> 111319
          [] lo = 0 /\ hi = 0 /\ dlon = 2 -> 222639
          [] lo = 0 /\ hi = 1 /\ dlon = 0 -> 110574
          [] lo = 0 /\ hi = 1 /\ dlon = 1 -> 156900
          [] lo = 0 /\ hi = 1 /\ dlon = 2 -> 248576
          [] lo = 1 /\ hi = 1 /\ dlon = 1 -> 111303
          [] lo = 1 /\ hi = 1 /\ dlon = 2 -> 222605

(***************************************************************************)
(* Dicts                                                                   *)
(***************************************************************************)
DictWithout(d, key) == [k \in DOMAIN d \ {key} |-> d[k]]
DictSet(d, key, v) == [k \in DOMAIN d \cup {key} |-> IF k = key THEN v ELSE d[k]]

PointOf(d) == Point(d.latitude, d.longitude)

(***************************************************************************)
(* get_current_location                                                    *)
(***************************************************************************)
\* <<latitude, longitude>>, both optional
get_current_location(g) ==
    IF g.raises THEN <<None, None>>
    ELSE IF ~g.has_loc THEN <<None, None>>
    ELSE IF Len(g.loc) # 2 THEN <<None, None>>
    ELSE IF g.loc[1] = None \/ g.loc[2] = None THEN <<None, None>>
    ELSE <<g.loc[1], g.loc[2]>>

(***************************************************************************)
(* fetch_museum_data, fetch_museums_for_cities                             *)
(***************************************************************************)
StripId(museum) == DictWithout(museum, "id")

\* [raised, value]: the call raised, or returned value: None or
\* Some([city, data]).
fetch_museum_data(city_name, u) ==
    IF u.raises THEN [raised |-> TRUE, value |-> None]
    ELSE IF u.status_code = 200
         THEN IF ~u.parses THEN [raised |-> TRUE, value |-> None]
              ELSE [raised |-> FALSE,
                    value |-> Some([city |-> city_name,
                                    data |-> [i \in 1..Len(u.body) |-> StripId(u.body[i])]])]
         ELSE [raised |-> FALSE, value |-> None]

\* The city is set only where upstream gave none
TagCityIfMissing(museum, city) ==
    IF "city" \in DOMAIN museum THEN museum ELSE DictSet(museum, "city", city)

TagCity(museum, city) == DictSet(museum, "city", city)

\* One iteration of the loop of fetch_museums_for_cities: all_museums after
\* the city's result (not None) was tagged and appended. The dicts are new
\* objects; uid numbers them in order of creation.
ExtendWith(all_museums, museums_dict, city) ==
    all_museums \o
        [i \in 1..Len(museums_dict.data) |->
            [uid |-> Len(all_museums) + i, d |-> TagCity(museums_dict.data[i], city)]]

(***************************************************************************)
(* heuristic, a_star_search                                                *)
(***************************************************************************)
heuristic(a, b) == geodesic(a, b)

\* The key of min(museums, key=...)
MuseumKey(cur, museum) == heuristic(cur, PointOf(museum.d))

\* min(museums, key=...): a scan that keeps the first element of smallest key.
\* The index of that element.
RECURSIVE MinScan(_, _, _, _)
MinScan(ms, cur, best, i) ==
    IF i > Len(ms) THEN best
    ELSE MinScan(ms, cur,
                 IF MuseumKey(cur, ms[i]) < MuseumKey(cur, ms[best]) THEN i ELSE best,
                 i + 1)

\* A scan that keeps the last element of smallest key
RECURSIVE MinScanLast(_, _, _, _)
MinScanLast(ms, cur, best, i) ==
    IF i > Len(ms) THEN best
    ELSE MinScanLast(ms, cur,
                     IF MuseumKey(cur, ms[i]) <= MuseumKey(cur, ms[best]) THEN i ELSE best,
                     i + 1)

MinIndexLast(ms, cur) == MinScanLast(ms, cur, 1, 2)

\* max in place of min
RECURSIVE MaxScan(_, _, _, _)
MaxScan(ms, cur, best, i) ==
    IF i > Len(ms) THEN best
    ELSE MaxScan(ms, cur,
                 IF MuseumKey(cur, ms[i]) > MuseumKey(cur, ms[best]) THEN i ELSE best,
                 i + 1)

MaxIndex(ms, cur) == MaxScan(ms, cur, 1, 2)

MinIndex(ms, cur) == MinScan(ms, cur, 1, 2)

\* A removal by name: every record of x's name goes
ListRemoveByName(ms, x) == SelectSeq(ms, LAMBDA m : m.d.name # x.d.name)

\* list.remove(x): the list without its first element equal to x. Dicts are
\* compared by value.
RECURSIVE FirstEqual(_, _, _)
FirstEqual(ms, x, i) ==
    IF i > Len(ms) THEN 0
    ELSE IF ms[i].d = x.d THEN i
    ELSE FirstEqual(ms, x, i + 1)

ListRemove(ms, x) ==
    LET i == FirstEqual(ms, x, 1)
    IN  [j \in 1..(Len(ms) - 1) |-> IF j < i THEN ms[j] ELSE ms[j + 1]]

\* closest_museum['distance'] = heuristic(current_location, ...): the distance
\* written into the chosen dict
StepDistance(cur, museum) == heuristic(cur, PointOf(museum.d))

\* The position never advances
NextLocationStuck(cur, closest) == cur

\* current_location = Point(closest_museum['latitude'], closest_museum['longitude'])
NextLocation(cur, closest) == PointOf(closest.d)

(***************************************************************************)
(* The handlers' messages and return values                                *)
(***************************************************************************)
ErrNoMuseums == "No valid museums found for the provided cities. Please enter valid city names."
ErrNoLocation == "Unable to fetch current location."
ErrBadNumber == "Invalid start location number. Please enter a valid number or museum name."
ErrBadInput == "Invalid start location input. Please enter a valid number or museum name."
ErrNoStart == "Could not determine start location. Please try again."

\* return {'error': msg}, 400
ErrorReturn(msg) == [type |-> "dict", data |-> [error |-> msg], code |-> 400]

NoReturn == [type |-> "none", data |-> <<>>, code |-> 0]
NoResponse == [status |-> 0, body |-> <<>>]

Dicts(ms) == [i \in 1..Len(ms) |-> ms[i].d]

\* `while museums` is over
IsEmpty(ms) == Len(ms) = 0

\* `if not museums` in the handlers
NoMuseums(ms) == Len(ms) = 0

\* next((museum for museum in museums if ... == museum['name'].lower()), None):
\* the index of the first museum of that name, 0 for None
RECURSIVE FindByName(_, _, _)
FindByName(ms, input, i) ==
    IF i > Len(ms) THEN 0
    ELSE IF Lower(input) = Lower(ms[i].d.name) THEN i
    ELSE FindByName(ms, input, i + 1)

\* 0 <= start_location_index < len(museums)
IndexInRange(index, ms) == 0 <= index /\ index < Len(ms)

\* list[index], for an index Python accepts (a negative one counts from the end)
ListItem(ms, index) == IF index >= 0 THEN ms[index + 1] ELSE ms[Len(ms) + index + 1]

\* The position (from 1) of list[index]
ListPosition(ms, index) == IF index >= 0 THEN index + 1 ELSE Len(ms) + index + 1

\* The number is tried before the name
ResolveNumberFirst(ms, input) ==
    LET byName == FindByName(ms, input, 1)
        parsed == ParseInt(input)
    IN  IF parsed # None /\ 0 <= parsed[1] - 1 /\ parsed[1] - 1 < Len(ms)
        THEN [error |-> None, start |-> Some(PointOf(ms[parsed[1]].d)), chosen |-> parsed[1]]
        ELSE IF byName # 0
        THEN [error |-> None, start |-> Some(PointOf(ms[byName].d)), chosen |-> byName]
        ELSE IF parsed = None
        THEN [error |-> Some(ErrBadInput), start |-> None, chosen |-> 0]
        ELSE [error |-> Some(ErrBadNumber), start |-> None, chosen |-> 0]

\* The else branch of PlanTrip.post's start resolution:
\* [error, start, chosen], chosen being the museum's index.
ResolveFromMuseums(ms, input) ==
    LET byName == FindByName(ms, input, 1)
        parsed == ParseInt(input)
    IN  IF byName # 0
        THEN [error |-> None, start |-> Some(PointOf(ms[byName].d)), chosen |-> byName]
        ELSE IF parsed = None
        THEN [error |-> Some(ErrBadInput), start |-> None, chosen |-> 0]
        ELSE IF IndexInRange(parsed[1] - 1, ms)
        THEN [error |-> None,
              start |-> Some(PointOf(ListItem(ms, parsed[1] - 1).d)),
              chosen |-> ListPosition(ms, parsed[1] - 1)]
        ELSE [error |-> Some(ErrBadNumber), start |-> None, chosen |-> 0]

(***************************************************************************)
(* flask-restx marshalling (marshal_with): the output has the model's      *)
(* fields and no others; a field the data lacks is null.                   *)
(***************************************************************************)
museum_output == {"name", "latitude", "longitude", "city", "imageUrl"}
museum_with_distance_output == museum_output \cup {"distance"}
trip_output == {"trip_plan"}

marshal(data, fields) == [k \in fields |-> IF k \in DOMAIN data THEN data[k] ELSE None]

MarshalList(list, fields) == [i \in 1..Len(list) |-> marshal(list[i], fields)]

\* @api.marshal_with(trip_output)
MarshalTripOutput(r) ==
    [k \in trip_output |->
        IF k \in DOMAIN r.data
        THEN MarshalList(r.data[k], museum_with_distance_output)
        ELSE None]

\* @api.marshal_with(museum_output, as_list=True)
MarshalMuseums(r) ==
    IF r.type = "list" THEN MarshalList(r.data, museum_output)
    ELSE marshal(r.data, museum_output)

(***************************************************************************)
(* The state machine                                                       *)
(***************************************************************************)
CityLists == UNION { [1..n -> CityNames] : n \in 0..MaxCities }

Init ==
    /\ pc = "idle"
    /\ endpoint = "none"
    /\ cities = <<>>
    /\ start_location_input = ""
    /\ upstream = <<>>
    /\ museums = <<>>
    /\ input_museums = <<>>
    /\ start_location = None
    /\ chosen_museum = None
    /\ current_location = None
    /\ trip_plan = <<>>
    /\ geo = <<>>
    /\ ret = NoReturn
    /\ response = NoResponse

\* A request arrives: input_data = request.json is read, all_museums = [].
Arrive(e, cs, s) ==
    /\ pc = "idle"
    /\ pc' = "fetch"
    /\ endpoint' = e
    /\ cities' = cs
    /\ start_location_input' = s
    /\ upstream' = <<>>
    /\ museums' = <<>>
    /\ input_museums' = <<>>
    /\ start_location' = None
    /\ chosen_museum' = None
    /\ current_location' = None
    /\ trip_plan' = <<>>
    /\ geo' = <<>>
    /\ ret' = NoReturn
    /\ response' = NoResponse

RequestPlanTrip == \E cs \in CityLists, s \in StartInputs : Arrive("plan_trip", cs, s)

RequestShowMuseums == \E cs \in CityLists : Arrive("show_museums", cs, "")

\* An exception nothing catches leaves the handler: the framework answers 500.
Fault ==
    /\ pc' = "done"
    /\ response' = [status |-> 500, body |-> [message |-> "Internal Server Error"]]

Fetching == pc = "fetch" /\ Len(upstream) < Len(cities)
Fetched == pc = "fetch" /\ Len(upstream) = Len(cities)

\* One iteration of `for city in cities` in fetch_museums_for_cities.
FetchCity ==
    /\ Fetching
    /\ \E u \in MuseumUpstream :
          LET city == cities[Len(upstream) + 1]
              museums_dict == fetch_museum_data(city, u)
          IN  /\ upstream' = Append(upstream, u)
              /\ IF museums_dict.raised
                 THEN /\ Fault
                      /\ UNCHANGED museums
                 ELSE /\ museums' = IF museums_dict.value # None
                                    THEN ExtendWith(museums, museums_dict.value[1], city)
                                    ELSE museums
                      /\ UNCHANGED <<pc, response>>
    /\ UNCHANGED <<endpoint, cities, start_location_input, input_museums,
                   start_location, chosen_museum, current_location, trip_plan,
                   geo, ret>>

\* The handler returns r.
Return(r) ==
    /\ pc' = "return"
    /\ ret' = r

\* trip_plan = a_star_search(start_museum, museums) is entered.
EnterAStar(start) ==
    /\ pc' = "astar"
    /\ start_location' = Some(start)
    /\ current_location' = Some(start)
    /\ input_museums' = museums
    /\ trip_plan' = <<>>
    /\ UNCHANGED ret

\* PlanTrip.post after the fetch: `if not museums`.
PlanTripNoMuseums ==
    /\ Fetched
    /\ endpoint = "plan_trip"
    /\ NoMuseums(museums)
    /\ Return(ErrorReturn(ErrNoMuseums))
    /\ UNCHANGED <<endpoint, cities, start_location_input, upstream, museums,
                   input_museums, start_location, chosen_museum, current_location,
                   trip_plan, geo, response>>

\* PlanTrip.post after the fetch: the "current location" branch.
PlanTripCurrentLocation ==
    /\ Fetched
    /\ endpoint = "plan_trip"
    /\ ~NoMuseums(museums)
    /\ Lower(start_location_input) = "current location"
    /\ \E g \in GeoUpstream :
          LET loc == get_current_location(g)
          IN  /\ geo' = Append(geo, g)
              /\ IF loc[1] = None \/ loc[2] = None
                 THEN /\ Return(ErrorReturn(ErrNoLocation))
                      /\ UNCHANGED <<input_museums, start_location, current_location,
                                     trip_plan>>
                 ELSE EnterAStar(Point(loc[1][1], loc[2][1]))
    /\ UNCHANGED <<endpoint, cities, start_location_input, upstream, museums,
                   chosen_museum, response>>

\* PlanTrip.post after the fetch: the start is a museum's name or number.
PlanTripFromMuseum ==
    /\ Fetched
    /\ endpoint = "plan_trip"
    /\ ~NoMuseums(museums)
    /\ Lower(start_location_input) # "current location"
    /\ LET r == ResolveFromMuseums(museums, start_location_input)
       IN  IF r.error # None
           THEN /\ Return(ErrorReturn(r.error[1]))
                /\ UNCHANGED <<input_museums, start_location, chosen_museum,
                               current_location, trip_plan>>
           ELSE IF r.start = None
           THEN /\ Return(ErrorReturn(ErrNoStart))
                /\ UNCHANGED <<input_museums, start_location, chosen_museum,
                               current_location, trip_plan>>
           ELSE /\ chosen_museum' = Some(museums[r.chosen].uid)
                /\ EnterAStar(r.start[1])
    /\ UNCHANGED <<endpoint, cities, start_location_input, upstream, museums,
                   geo, response>>

\* One iteration of `while museums` in a_star_search.
AStarStep ==
    /\ pc = "astar"
    /\ ~IsEmpty(museums)
    /\ LET cur == current_location[1]
           i == MinIndex(museums, cur)
           marked == [museums EXCEPT
                        ![i].d = DictSet(@, "distance", StepDistance(cur, museums[i]))]
           closest_museum == marked[i]
       IN  /\ trip_plan' = Append(trip_plan, closest_museum)
           /\ current_location' = Some(NextLocation(cur, closest_museum))
           /\ museums' = ListRemove(marked, closest_museum)
    /\ UNCHANGED <<pc, endpoint, cities, start_location_input, upstream,
                   input_museums, start_location, chosen_museum, geo, ret,
                   response>>

\* a_star_search returns; PlanTrip.post returns {'trip_plan': trip_plan}.
AStarReturn ==
    /\ pc = "astar"
    /\ IsEmpty(museums)
    /\ Return([type |-> "dict", data |-> [trip_plan |-> Dicts(trip_plan)], code |-> 200])
    /\ UNCHANGED <<endpoint, cities, start_location_input, upstream, museums,
                   input_museums, start_location, chosen_museum, current_location,
                   trip_plan, geo, response>>

\* ShowMuseums.post after the fetch.
ShowMuseumsReturn ==
    /\ Fetched
    /\ endpoint = "show_museums"
    /\ IF NoMuseums(museums)
       THEN Return(ErrorReturn(ErrNoMuseums))
       ELSE Return([type |-> "list", data |-> Dicts(museums), code |-> 200])
    /\ UNCHANGED <<endpoint, cities, start_location_input, upstream, museums,
                   input_museums, start_location, chosen_museum, current_location,
                   trip_plan, geo, response>>

\* The handler's return value passes through its marshal_with decorator.
Marshal ==
    /\ pc = "return"
    /\ pc' = "done"
    /\ response' = [status |-> ret.code,
                    body |-> IF endpoint = "plan_trip"
                             THEN MarshalTripOutput(ret)
                             ELSE MarshalMuseums(ret)]
    /\ UNCHANGED <<endpoint, cities, start_location_input, upstream, museums,
                   input_museums, start_location, chosen_museum, current_location,
                   trip_plan, geo, ret>>

\* The response is sent; the request's data is discarded.
Close ==
    /\ pc = "done"
    /\ pc' = "idle"
    /\ endpoint' = "none"
    /\ cities' = <<>>
    /\ start_location_input' = ""
    /\ upstream' = <<>>
    /\ museums' = <<>>
    /\ input_museums' = <<>>
    /\ start_location' = None
    /\ chosen_museum' = None
    /\ current_location' = None
    /\ trip_plan' = <<>>
    /\ geo' = <<>>
    /\ ret' = NoReturn
    /\ response' = NoResponse

Next ==
    \/ RequestPlanTrip
    \/ RequestShowMuseums
    \/ FetchCity
    \/ PlanTripNoMuseums
    \/ PlanTripCurrentLocation
    \/ PlanTripFromMuseum
    \/ AStarStep
    \/ AStarReturn
    \/ ShowMuseumsReturn
    \/ Marshal
    \/ Close

Spec == Init /\ [][Next]_vars

(***************************************************************************)
(* Properties                                                              *)
(***************************************************************************)
\* a_star_search was entered in this request (and, in AStarReturned, has returned)
AStarEntered == pc \in {"astar", "return", "done"} /\ start_location # None
AStarReturned == pc \in {"return", "done"} /\ start_location # None

\* The list fetch_museums_for_cities returned to the handler
Aggregated == IF start_location # None THEN input_museums ELSE museums

\* The handler got past the fetch and resolved the request
Resolved == pc = "astar" \/ (pc \in {"return", "done"} /\ ret # NoReturn)

\* The position in the plan's step k: where the sequencer stood when it chose
\* the k-th record of the plan
StandingAt(k) == IF k = 1 THEN start_location[1] ELSE PointOf(trip_plan[k - 1].d)

\* The positions in input_museums of the records not yet chosen before step k
RemainingBefore(k) ==
    { i \in 1..Len(input_museums) :
        \A j \in 1..(k - 1) : trip_plan[j].uid # input_museums[i].uid }

\* The position in input_museums of the k-th record of the plan
InputPosition(k) ==
    CHOOSE i \in 1..Len(input_museums) : input_museums[i].uid = trip_plan[k].uid

Occurrences(list, uid) == Cardinality({ i \in 1..Len(list) : list[i].uid = uid })

\* C1: in every iteration of a_star_search the records in trip_plan together
\* with those still in museums are exactly the records of the input list, each
\* object once and unchanged but for its distance field; on return the working
\* list is empty and the plan is as long as the input. The number of records
\* left falls by one per iteration, so the loop ends after Len(input) of them.
C1_PlanIsPermutation ==
    AStarEntered =>
        LET all == trip_plan \o museums
        IN  /\ Len(all) = Len(input_museums)
            /\ \A i \in 1..Len(input_museums) :
                  /\ Occurrences(all, input_museums[i].uid) = 1
                  /\ \A j \in 1..Len(all) :
                        all[j].uid = input_museums[i].uid =>
                            DictWithout(all[j].d, "distance")
                                = DictWithout(input_museums[i].d, "distance")
            /\ AStarReturned =>
                  /\ museums = <<>>
                  /\ Len(trip_plan) = Len(input_museums)
                  /\ ret.data.trip_plan = Dicts(trip_plan)

\* C1 witness: a plan was returned for a list holding two records equal by value
C1_Witness ==
    /\ AStarReturned
    /\ Len(trip_plan) >= 3
    /\ \E i, j \in 1..Len(input_museums) : i # j /\ input_museums[i].d = input_museums[j].d

\* C2: every record of the plan was, when chosen, at the least distance from the
\* sequencer's position among the records not yet chosen, and before every
\* other such record at that distance in input order.
C2_NearestFirstInOrder ==
    AStarEntered =>
        \A k \in 1..Len(trip_plan) :
            LET cur == StandingAt(k)
                c == InputPosition(k)
                d(i) == geodesic(cur, PointOf(input_museums[i].d))
            IN  /\ c \in RemainingBefore(k)
                /\ \A i \in RemainingBefore(k) :
                      /\ d(c) <= d(i)
                      /\ i < c => d(c) < d(i)

\* C2 witness: a step at which two records at different places were both nearest
C2_Witness ==
    /\ AStarReturned
    /\ \E k \in 1..Len(trip_plan) :
          \E i \in RemainingBefore(k) :
              /\ PointOf(input_museums[i].d) # PointOf(trip_plan[k].d)
              /\ geodesic(StandingAt(k), PointOf(input_museums[i].d))
                    = geodesic(StandingAt(k), PointOf(trip_plan[k].d))
              /\ trip_plan[k].d.distance > 0

\* C3: in the returned plan the first record's distance is the distance from
\* the start, every later record's is the distance from the record before it,
\* and none is negative.
C3_DistanceFromPrevious ==
    AStarReturned =>
        /\ Len(ret.data.trip_plan) = Len(trip_plan)
        /\ \A k \in 1..Len(trip_plan) :
              LET rec == ret.data.trip_plan[k]
                  prev == IF k = 1 THEN start_location[1]
                          ELSE PointOf(ret.data.trip_plan[k - 1])
              IN  /\ "distance" \in DOMAIN rec
                  /\ rec.distance = geodesic(prev, PointOf(rec))
                  /\ rec.distance >= 0

\* C3 witness: a returned plan of three records, the last two each away from
\* the one before, one of them with a distance of its own from upstream
C3_Witness ==
    /\ AStarReturned
    /\ Len(trip_plan) >= 3
    /\ trip_plan[2].d.distance > 0
    /\ trip_plan[3].d.distance > 0
    /\ geodesic(start_location[1], PointOf(trip_plan[3].d)) # trip_plan[3].d.distance
    /\ \E i \in 1..Len(input_museums) :
          /\ "distance" \in DOMAIN input_museums[i].d
          /\ input_museums[i].uid = trip_plan[3].uid

\* C4: every request ends in a success response or in a 400 error response,
\* never in an unhandled fault, whatever the museum provider or the
\* geolocation provider does.
C4_NoUnhandledFault == pc = "done" => response.status \in {200, 400}

\* The geolocation call of this request was made and failed
LocationFailed == geo # <<>> /\ get_current_location(geo[1]) = <<None, None>>

\* C5: a plan_trip request for "current location" with museums fetched and a
\* failed geolocation call is answered, after marshalling, with status 400 and
\* a body whose error field mentions the current location.
C5_LocationErrorReachesCaller ==
    (/\ pc = "done"
     /\ endpoint = "plan_trip"
     /\ Lower(start_location_input) = "current location"
     /\ Aggregated # <<>>
     /\ LocationFailed)
    => /\ response.status = 400
       /\ "error" \in DOMAIN response.body
       /\ response.body.error = ErrNoLocation

\* What the i-th fetch contributes: the records of a 200 answer, nothing otherwise
Contribution(i) == IF upstream[i].status_code = 200 THEN upstream[i].body ELSE <<>>

\* The number of records the first n fetches contribute
RECURSIVE Contributed(_)
Contributed(n) == IF n = 0 THEN 0 ELSE Contributed(n - 1) + Len(Contribution(n))

\* C6: the aggregated list is the concatenation, in city order and within a
\* city in upstream order, of the records of the cities answered with 200; a
\* city answered otherwise contributes nothing and the later cities are still
\* fetched; every record carries the queried city and no id.
C6_AggregateIsConcatenation ==
    pc = "fetch" =>
        /\ Len(museums) = Contributed(Len(upstream))
        /\ \A i \in 1..Len(upstream) :
              \A j \in 1..Len(Contribution(i)) :
                  LET got == museums[Contributed(i - 1) + j].d
                      sent == upstream[i].body[j]
                  IN  /\ DOMAIN got = (DOMAIN sent \ {"id"}) \cup {"city"}
                      /\ got.city = cities[i]
                      /\ \A k \in DOMAIN got \ {"city"} : got[k] = sent[k]
        /\ (cities = <<>> => museums = <<>>)

\* C6 witness: the first city failed, the second was still fetched and gave two
\* records, one with an id and another city's name
C6_Witness ==
    /\ Fetched
    /\ Len(cities) = 2
    /\ cities[2] = "Paris"
    /\ upstream[1].status_code = 404
    /\ upstream[2].body = <<RecTwo, RecLouvre>>
    /\ Len(museums) = 2

\* The handler rejected the request with msg before any start was resolved
Rejected(msg) ==
    /\ pc \in {"return", "done"}
    /\ ret = ErrorReturn(msg)
    /\ start_location = None
    /\ chosen_museum = None
    /\ trip_plan = <<>>

\* plan_trip resolved a start_location other than "current location" against a
\* list of museums
ResolvedAgainstMuseums ==
    /\ Resolved
    /\ endpoint = "plan_trip"
    /\ Aggregated # <<>>
    /\ Lower(start_location_input) # "current location"

NameMatches(i) == Lower(Aggregated[i].d.name) = Lower(start_location_input)
NoNameMatches == \A i \in 1..Len(Aggregated) : ~NameMatches(i)

\* The caller was answered with status 400 and a body whose error field is msg
AnsweredError(msg) ==
    /\ response.status = 400
    /\ "error" \in DOMAIN response.body
    /\ response.body.error = msg

\* What PlanTrip.post's body does with a start_location that is no museum's
\* name: an integer k selects the k-th museum if and only if
\* 1 <= k <= number of museums; for any other integer it returns the
\* invalid-number error, for a non-integer the invalid-input error, and the
\* sequencer is not run.
HandlerIndexSelection ==
    (ResolvedAgainstMuseums /\ NoNameMatches) =>
        LET parsed == ParseInt(start_location_input)
        IN  IF parsed = None THEN Rejected(ErrBadInput)
            ELSE IF 1 <= parsed[1] /\ parsed[1] <= Len(Aggregated)
            THEN /\ chosen_museum = Some(Aggregated[parsed[1]].uid)
                 /\ start_location = Some(PointOf(Aggregated[parsed[1]].d))
                 /\ AStarEntered
            ELSE Rejected(ErrBadNumber)

\* C7: when no museum has start_location's name, an integer k selects the k-th
\* museum of the aggregated list if and only if 1 <= k <= number of museums;
\* for any other integer no museum is selected, the sequencer is not run and
\* the response is HTTP 400 with the invalid-number error; for a non-integer
\* the response is HTTP 400 with the invalid-input error.
C7_IndexSelectionAnswered ==
    /\ HandlerIndexSelection
    /\ (pc = "done" /\ ResolvedAgainstMuseums /\ NoNameMatches) =>
          LET parsed == ParseInt(start_location_input)
          IN  IF parsed = None THEN AnsweredError(ErrBadInput)
              ELSE IF 1 <= parsed[1] /\ parsed[1] <= Len(Aggregated)
              THEN response.status = 200
              ELSE AnsweredError(ErrBadNumber)

\* What either handler's body does with an empty aggregated list: it returns
\* the no-valid-museums error with 400 and nothing else happens: no
\* geolocation call, no start resolved, no sequencer run.
HandlerEmptyListRejectedFirst ==
    (Resolved /\ Aggregated = <<>>) =>
        /\ Rejected(ErrNoMuseums)
        /\ ret.code = 400
        /\ geo = <<>>
        /\ input_museums = <<>>

\* C8: with an empty aggregated list either handler answers HTTP 400 with the
\* no-valid-museums error and does nothing further: no geolocation call, no
\* start resolved, no sequencer run.
C8_EmptyListAnswered ==
    /\ HandlerEmptyListRejectedFirst
    /\ (pc = "done" /\ Resolved /\ Aggregated = <<>>) => AnsweredError(ErrNoMuseums)

\* C9: "current location" (in any case) always goes to the geolocation client
\* and to no museum; otherwise the first museum of that name (in any case) is
\* the start, also when the input is a valid number; a number is tried only
\* when no name matches; the geolocation client is called in the first case only.
C9_StartPrecedence ==
    /\ geo # <<>> => /\ Lower(start_location_input) = "current location"
                     /\ Len(geo) = 1
    /\ (Resolved /\ endpoint = "plan_trip" /\ Aggregated # <<>>) =>
          IF Lower(start_location_input) = "current location"
          THEN /\ Len(geo) = 1
               /\ chosen_museum = None
               /\ IF LocationFailed THEN Rejected(ErrNoLocation)
                  ELSE start_location = Some(Point(geo[1].loc[1][1], geo[1].loc[2][1]))
          ELSE /\ geo = <<>>
               /\ \A i \in 1..Len(Aggregated) :
                     (NameMatches(i) /\ \A j \in 1..(i - 1) : ~NameMatches(j)) =>
                         /\ chosen_museum = Some(Aggregated[i].uid)
                         /\ start_location = Some(PointOf(Aggregated[i].d))
               /\ NoNameMatches =>
                     (chosen_museum # None =>
                         /\ ParseInt(start_location_input) # None
                         /\ chosen_museum
                               = Some(Aggregated[ParseInt(start_location_input)[1]].uid))

\* C9 witness: "2" names the first museum of a list of two or more and was
\* taken as that name, not as the number
C9_Witness ==
    /\ AStarEntered
    /\ start_location_input = "2"
    /\ Len(Aggregated) >= 2
    /\ NameMatches(1)
    /\ chosen_museum = Some(Aggregated[1].uid)
    /\ PointOf(Aggregated[2].d) # PointOf(Aggregated[1].d)

\* The first position in the aggregated list of a record at point p
FirstAt(p) ==
    CHOOSE i \in 1..Len(Aggregated) :
        /\ PointOf(Aggregated[i].d) = p
        /\ \A j \in 1..(i - 1) : PointOf(Aggregated[j].d) # p

\* C10: when the start is resolved from a museum, that museum is in the list
\* handed to the sequencer, the first record of the returned plan has distance
\* 0 and is the first record of the aggregated list at the chosen museum's
\* place, and the chosen museum is in the plan exactly once.
C10_ChosenMuseumLeads ==
    (AStarEntered /\ chosen_museum # None) =>
        /\ Occurrences(input_museums, chosen_museum[1]) = 1
        /\ AStarReturned =>
              /\ ret.code = 200
              /\ ret.data.trip_plan[1].distance = 0
              /\ trip_plan[1].uid = Aggregated[FirstAt(start_location[1])].uid
              /\ Occurrences(trip_plan, chosen_museum[1]) = 1

\* C10 witness: the chosen museum is second in the list, behind another museum
\* at the same place, and the plan starts with that one
C10_Witness ==
    /\ AStarReturned
    /\ chosen_museum # None
    /\ Len(trip_plan) >= 3
    /\ trip_plan[1].uid # chosen_museum[1]
    /\ trip_plan[1].d.name # trip_plan[2].d.name
    /\ trip_plan[2].uid = chosen_museum[1]

====
